---- MODULE Spec2Model ----
(***************************************************************************)
(* The catalog engine of lineup: DataManager (data_manager_enhanced.py)    *)
(* over its two backends, the transient pandas backend                     *)
(* (use_database = FALSE) and the SQLite backend of DatabaseManager        *)
(* (database_manager.py, use_database = TRUE).                             *)
(*                                                                         *)
(* MigrationUtility (migration_utility.py) drives a DatabaseManager of     *)
(* its own over a store file.                                              *)
(*                                                                         *)
(* Abstractions of the libraries the code calls:                           *)
(*  - a pandas DataFrame is a sequence of records in row order; the field  *)
(*    idx is the index label read_csv gave the row (its position);         *)
(*  - an SQLite table is a sequence of rows in rowid order (AUTOINCREMENT  *)
(*    ids only ever grow, so rowid order is insertion order);              *)
(*  - a missing CSV cell is NaN, SQL NULL / Python None is NULL;           *)
(*  - an optional number is <<>> (absent) or <<n>>;                        *)
(*  - the file system is the set fs of paths that are regular files.       *)
(***************************************************************************)
EXTENDS Integers, Sequences, FiniteSets, TLC

VARIABLES
    use_database,   \* DataManager.use_database
    df,             \* DataManager.df
    groups,         \* DataManager.groups
    group_ids,      \* DataManager.group_ids
    missing_files,  \* DataManager.missing_files
    connection,     \* DatabaseManager.connection: "open", "closed" (None), "none" (no db_manager)
    images,         \* table images of the store file
    groups_table,   \* table groups of the store file
    db_file,        \* the store file at db_path: [exists, schema (its tables and indexes)]
    fs,             \* paths that exist as regular files
    last            \* the last step: [op, ok, arg, ret, again (the step before was the same op)]

vars == <<use_database, df, groups, group_ids, missing_files,
          connection, images, groups_table, db_file, fs, last>>

store == <<df, groups, group_ids, missing_files, connection, images, groups_table>>

\* the DataManager (with its DatabaseManager and store file) as one value
Cur ==
    [use_database |-> use_database, df |-> df, groups |-> groups,
     group_ids |-> group_ids, missing_files |-> missing_files,
     connection |-> connection, images |-> images, groups_table |-> groups_table]

-----------------------------------------------------------------------------
(* Values *)

NaN == "<NaN>"
NULL == "<NULL>"

MaxRows == 2

Required == {"GroupID", "Master", "File", "Path"}

TrueStrings == {"true", "1", "yes", "y"}

CorePaths == {"/x/a.jpg", "/x/b.jpg"}
Paths == CorePaths \cup {"/yy/c.jpg"}
GroupIds == {"g1", "g2"}

\* The file name of a path of the input universe.
FileOf(p) ==
    CASE p = "/x/a.jpg" -> "a.jpg"
      [] p = "/x/b.jpg" -> "b.jpg"
      [] p = "/yy/c.jpg" -> "c.jpg"
      [] OTHER -> NaN

\* Binary (code point) order of the strings that the code sorts or that
\* SQLite orders: NULL sorts before every string.
LexOrder == <<NULL, "", "10", "2", "a", "a.jpg", "b", "b.jpg", "c.jpg", "g1", "g2", "nan">>
Rank(s) == CHOOSE i \in 1..Len(LexOrder) : LexOrder[i] = s
StrLT(a, b) == Rank(a) < Rank(b)

SeqsUpTo(S, n) == UNION {[1..k -> S] : k \in 0..n}

MkRow(g, m, p, q, a, mr) ==
    [GroupID |-> g, Master |-> m, File |-> FileOf(p), Path |-> p,
     QualityScore |-> q, Algorithm |-> a, MatchReasons |-> mr]

\* Reports with the mandatory columns and MatchReasons.
CoreCols == Required \cup {"MatchReasons"}
CoreRows ==
    {MkRow(g, IF p = "/x/a.jpg" THEN "Yes" ELSE NaN, p, <<>>, NaN, "dhash") :
        g \in GroupIds, p \in CorePaths}
CoreReports ==
    {[cols |-> CoreCols, Created |-> "absent", rows |-> rs] : rs \in SeqsUpTo(CoreRows, MaxRows)}

OneRowReports ==
    {[cols |-> CoreCols, Created |-> "absent",
      rows |-> <<MkRow("g1", NaN, "/x/b.jpg", <<>>, NaN, "dhash")>>]}

DropColumn(r, c) ==
    [r EXCEPT !.cols = @ \ {c},
              !.rows = [i \in 1..Len(r.rows) |-> [r.rows[i] EXCEPT ![c] = NaN]]]

\* Reports that lack a mandatory column.
BadSchemaReports == {DropColumn(r, c) : r \in OneRowReports, c \in {"Master", "Path"}}

\* Reports with a Created column: naive timestamps, or timestamps with
\* different UTC offsets.
TwoRowReport ==
    [cols |-> CoreCols, Created |-> "absent",
     rows |-> <<MkRow("g1", "Yes", "/x/a.jpg", <<>>, NaN, "dhash"),
                MkRow("g1", NaN, "/x/b.jpg", <<>>, NaN, "dhash")>>]
DatedReports ==
    {[TwoRowReport EXCEPT !.cols = @ \cup {"Created"}, !.Created = k] :
        k \in {"naive", "mixed_tz"}}

Reports == CoreReports \cup BadSchemaReports \cup DatedReports

\* The reports a store that was loaded before is loaded with again.
ReloadReports == OneRowReports \cup BadSchemaReports \cup DatedReports

\* The paths of the reports with optional columns (of different lengths),
\* and those of them that may exist as files.
RichPaths == {"/x/a.jpg", "/yy/c.jpg"}
RichFiles == {"/x/a.jpg"}

\* Reports with optional columns: MatchReasons alone, with QualityScore or
\* with Algorithm, or the four mandatory columns only.
RichRowsOf(cols) ==
    {MkRow(g, m, p, q, a, mr) :
        g \in GroupIds, m \in {NaN, "Yes"}, p \in RichPaths \cup {NaN},
        q \in IF "QualityScore" \in cols THEN {<<>>, <<1>>, <<2>>} ELSE {<<>>},
        a \in IF "Algorithm" \in cols THEN {"a", "b"} ELSE {NaN},
        mr \in IF "MatchReasons" \in cols THEN {"dhash"} ELSE {NaN}}
OptionalColumns ==
    {{}, {"MatchReasons"}, {"MatchReasons", "QualityScore"}, {"MatchReasons", "Algorithm"}}
RichReports(opt) ==
    {[cols |-> Required \cup opt, Created |-> "absent", rows |-> rs] :
        rs \in SeqsUpTo(RichRowsOf(opt), MaxRows)}

NoReport == [cols |-> {}, Created |-> "absent", rows |-> <<>>]

-----------------------------------------------------------------------------
(* Helpers shared by both backends *)

IsNa(v) == v = NaN
Str(v) == IF IsNa(v) THEN "nan" ELSE v
Lower(s) ==
    CASE s = "Yes" -> "yes"
      [] s = "TRUE" -> "true"
      [] OTHER -> s
FillNa(v) == IF IsNa(v) THEN "" ELSE v

Count(s, P(_)) == Cardinality({i \in 1..Len(s) : P(s[i])})
Range(s) == {s[i] : i \in 1..Len(s)}

\* sorted(unique strings): ascending binary order
RECURSIVE SortedStrings(_)
SortedStrings(S) ==
    IF S = {} THEN <<>>
    ELSE LET m == CHOOSE x \in S : \A y \in S : ~StrLT(y, x)
         IN <<m>> \o SortedStrings(S \ {m})

\* Path(file_path).exists() and .is_file(); empty and NaN paths are False
CheckFileExists(file_path, disk) ==
    IF file_path = "" \/ IsNa(file_path) THEN FALSE ELSE file_path \in disk

-----------------------------------------------------------------------------
(* The transient (pandas) backend *)

\* pd.read_csv: the raw frame, rows labelled by position
ReadCsv(r) ==
    [kind |-> "raw", cols |-> r.cols,
     rows |-> [i \in 1..Len(r.rows) |->
                  [idx |-> i, GroupID |-> r.rows[i].GroupID, Master |-> r.rows[i].Master,
                   File |-> r.rows[i].File, Path |-> r.rows[i].Path,
                   QualityScore |-> r.rows[i].QualityScore,
                   Algorithm |-> r.rows[i].Algorithm,
                   MatchReasons |-> r.rows[i].MatchReasons,
                   FileExists |-> FALSE, IsMaster |-> FALSE]]]

\* self.df = None
NoFrame == [kind |-> "none", cols |-> {}, rows |-> <<>>]

LegacyIsMaster(x) == Lower(Str(x)) \in TrueStrings

\* _process_data_legacy: dropna, GroupID as string, FileExists, IsMaster
ProcessDataLegacy(frame, disk) ==
    LET kept == SelectSeq(frame.rows,
                    LAMBDA r : ~IsNa(r.GroupID) /\ ~IsNa(r.File) /\ ~IsNa(r.Path))
    IN [kind |-> "processed", cols |-> frame.cols \cup {"FileExists", "IsMaster"},
        rows |-> [i \in 1..Len(kept) |->
                    [kept[i] EXCEPT !.GroupID = Str(@),
                                    !.FileExists = CheckFileExists(kept[i].Path, disk),
                                    !.IsMaster = LegacyIsMaster(kept[i].Master)]]]

\* the paths _check_file_exists adds to missing_files while it fills FileExists
MissingOf(rows, disk) ==
    {rows[i].Path : i \in {j \in 1..Len(rows) :
        ~(rows[j].Path = "" \/ IsNa(rows[j].Path)) /\ rows[j].Path \notin disk}}

\* Series.idxmax of QualityScore: label of the first row holding the maximum
\* of the present scores; 0 stands for the NaN label of an all-NaN series
NaNLabel == 0
IdxMaxQuality(members) ==
    LET scored == {i \in 1..Len(members) : members[i].QualityScore # <<>>}
    IN IF scored = {} THEN NaNLabel
       ELSE LET best == CHOOSE i \in scored :
                    /\ \A j \in scored : members[j].QualityScore[1] <= members[i].QualityScore[1]
                    /\ \A j \in scored : j < i =>
                           members[j].QualityScore[1] < members[i].QualityScore[1]
            IN members[best].idx

\* Path.str.len().idxmin(): label of the first row with the shortest path
IdxMinPathLen(members) ==
    LET best == CHOOSE i \in 1..Len(members) :
                    /\ \A j \in 1..Len(members) : Len(members[i].Path) <= Len(members[j].Path)
                    /\ \A j \in 1..Len(members) : j < i =>
                           Len(members[i].Path) < Len(members[j].Path)
    IN members[best].idx

\* the label the group's master is assigned to when no row is flagged
BestIdx(members, cols) ==
    IF "QualityScore" \in cols THEN IdxMaxQuality(members) ELSE IdxMinPathLen(members)

\* sort_values(['IsMaster', 'QualityScore'], ascending=[False, False]) or
\* sort_values(['IsMaster', 'File'], ascending=[False, True]): a before b
QualityBefore(x, y) == x # <<>> /\ (y = <<>> \/ x[1] > y[1])
RowBefore(byQuality, a, b) ==
    \/ a.IsMaster /\ ~b.IsMaster
    \/ /\ a.IsMaster = b.IsMaster
       /\ IF byQuality THEN QualityBefore(a.QualityScore, b.QualityScore)
          ELSE StrLT(FillNa(a.File), FillNa(b.File))

\* stable sort (rows that compare equal keep their order)
RECURSIVE SortRows(_, _)
SortRows(byQuality, s) ==
    IF s = <<>> THEN <<>>
    ELSE LET rest == SortRows(byQuality, SubSeq(s, 1, Len(s) - 1))
             x == s[Len(s)]
             k == Cardinality({j \in 1..Len(rest) : ~RowBefore(byQuality, x, rest[j])})
         IN SubSeq(rest, 1, k) \o <<x>> \o SubSeq(rest, k + 1, Len(rest))

\* the row that .loc[nan, 'IsMaster'] = True appends: every other cell NaN
PhantomRow ==
    [idx |-> NaNLabel, GroupID |-> NaN, Master |-> NaN, File |-> NaN, Path |-> NaN,
     QualityScore |-> <<>>, Algorithm |-> NaN, MatchReasons |-> NaN,
     FileExists |-> FALSE, IsMaster |-> TRUE]

MembersOf(rows, g) == SelectSeq(rows, LAMBDA r : r.GroupID = g)
NeedsMaster(rows, g) == Count(MembersOf(rows, g), LAMBDA r : r.IsMaster) = 0

\* _create_groups_legacy.  idxmax of an all-NaN series either raises
\* (idxmax_raises) or yields NaN, and .loc[NaN] then appends a row.
\* Result: [ok, rows (self.df), groups, group_ids].
CreateGroupsLegacy(frame, idxmax_raises) ==
    LET rows == frame.rows
        ids == SortedStrings({rows[i].GroupID : i \in 1..Len(rows)})
        best(g) == BestIdx(MembersOf(rows, g), frame.cols)
        fails(k) == /\ idxmax_raises
                    /\ NeedsMaster(rows, ids[k])
                    /\ best(ids[k]) = NaNLabel
        failing == {k \in 1..Len(ids) : fails(k)}
        stop == IF failing = {} THEN Len(ids) + 1
                ELSE CHOOSE k \in failing : \A j \in failing : k <= j
        done == {ids[k] : k \in 1..(stop - 1)}
        assigned == {best(g) : g \in {h \in done : NeedsMaster(rows, h)}}
        mark(s) == [i \in 1..Len(s) |->
                       [s[i] EXCEPT !.IsMaster = @ \/ s[i].idx \in assigned]]
        built(g) ==
            LET m == mark(MembersOf(rows, g))
                grown == IF NeedsMaster(rows, g) /\ best(g) = NaNLabel
                         THEN Append(m, PhantomRow) ELSE m
            IN SortRows("QualityScore" \in frame.cols, grown)
    IN [ok |-> failing = {},
        rows |-> IF NaNLabel \in assigned THEN Append(mark(rows), PhantomRow) ELSE mark(rows),
        groups |-> [g \in done |-> [cols |-> frame.cols, rows |-> built(g)]],
        group_ids |-> ids]

\* _load_csv_legacy on the legacy attributes st = [df, groups, group_ids,
\* missing_files]; ok = FALSE when it raises
LoadCsvLegacy(st, r, disk, idxmax_raises) ==
    LET raw == ReadCsv(r)
        frame == ProcessDataLegacy(raw, disk)
        made == CreateGroupsLegacy(frame, idxmax_raises)
    IN IF ~(Required \subseteq r.cols)
       THEN [ok |-> FALSE, df |-> raw, groups |-> st.groups,
             group_ids |-> st.group_ids, missing_files |-> st.missing_files]
       ELSE [ok |-> made.ok,
             df |-> [frame EXCEPT !.rows = made.rows],
             groups |-> made.groups,
             group_ids |-> made.group_ids,
             missing_files |-> st.missing_files \cup MissingOf(frame.rows, disk)]

-----------------------------------------------------------------------------
(* The durable (SQLite) backend *)

EmptyTable == <<>>

\* _create_tables: the tables and the indexes of a store file
Tables == {"groups", "images"}
Indexes ==
    {"idx_group_id", "idx_master", "idx_quality_score", "idx_similarity_score",
     "idx_file_type", "idx_camera_make", "idx_camera_model", "idx_file_exists",
     "idx_size_bytes", "idx_dimensions"}
Schema == Tables \cup Indexes

\* no file at db_path
NoFile == [exists |-> FALSE, schema |-> {}]

\* A faulty variant of the Master coercion, which the flags of the records
\* must tell from the code: the string is compared as it is written.
DbIsMasterCaseSensitive(x) == IF ~IsNa(x) THEN Str(x) \in TrueStrings ELSE FALSE

DbIsMaster(x) == IF ~IsNa(x) THEN Lower(Str(x)) \in TrueStrings ELSE FALSE

\* pd.to_datetime(errors='coerce') of the Created column: timestamps with
\* different UTC offsets give an object column, on which .dt raises
ToDatetimeDtype(created) == IF created = "mixed_tz" THEN "object" ELSE "datetime64[ns]"
CleanRaises(r) == "Created" \in r.cols /\ ToDatetimeDtype(r.Created) = "object"

\* _clean_dataframe and the tuple _process_and_insert_data builds of a row
\* (no row is dropped; file_exists is computed before fillna)
CleanRow(row, cols, disk) ==
    [group_id |-> Str(row.GroupID),
     algorithm |-> IF "Algorithm" \in cols THEN FillNa(row.Algorithm) ELSE NULL,
     is_master |-> DbIsMaster(row.Master),
     file |-> FillNa(row.File),
     path |-> FillNa(row.Path),
     quality_score |-> IF "QualityScore" \in cols THEN row.QualityScore ELSE <<>>,
     match_reasons |-> IF "MatchReasons" \in cols THEN FillNa(row.MatchReasons) ELSE NULL,
     file_exists |-> CheckFileExists(row.Path, disk)]

InsertData(r, disk) == [i \in 1..Len(r.rows) |-> CleanRow(r.rows[i], r.cols, disk)]

\* sqlite3 binds the size_bytes of a tuple as a 64-bit integer and raises
\* OverflowError for a larger one; a Size cell of type "huge" is a size
\* above 2^63 - 1 bytes (size_bytes itself is left out of the stored row)
Writable(row, cols) == ~("Size" \in cols /\ row.Size.type = "huge")

\* cursor.executemany: the tuples before the first one that cannot be bound
\* are inserted, and stay in the open transaction when it raises
ExecuteMany(data, bad) ==
    IF bad = {} THEN [raised |-> FALSE, images |-> data]
    ELSE [raised |-> TRUE,
          images |-> SubSeq(data, 1, (CHOOSE i \in bad : \A j \in bad : i <= j) - 1)]

\* the fallback loop: cursor.execute of every tuple of insert_data, the
\* tuples that raise are skipped
InsertEach(imgs, data, bad) ==
    LET kept == SelectSeq([i \in 1..Len(data) |-> [row |-> data[i], bad |-> i \in bad]],
                          LAMBDA t : ~t.bad)
    IN imgs \o [i \in 1..Len(kept) |-> kept[i].row]

\* the images table after the two-tier write of _process_and_insert_data
InsertImages(data, bad) ==
    IF ExecuteMany(data, bad).raised
    THEN InsertEach(ExecuteMany(data, bad).images, data, bad)
    ELSE ExecuteMany(data, bad).images

ProcessAndInsertData(r, disk) ==
    InsertImages(InsertData(r, disk),
                 {i \in 1..Len(r.rows) : ~Writable(r.rows[i], r.cols)})

\* A faulty variant of _update_group_summaries, which the pairing of images
\* rows and groups rows must tell from the code: it rolls up only the groups
\* that have a master.
UpdateGroupSummariesOfMastered(imgs, tbl) ==
    LET gids == {imgs[i].group_id : i \in {j \in 1..Len(imgs) : imgs[j].is_master}}
        part(g) == SelectSeq(imgs, LAMBDA m : m.group_id = g)
    IN [g \in (DOMAIN tbl) \cup gids |->
          IF g \in gids
          THEN [algorithm |-> part(g)[1].algorithm,
                total_images |-> Len(part(g)),
                master_count |-> Count(part(g), LAMBDA m : m.is_master),
                existing_images |-> Count(part(g), LAMBDA m : m.file_exists)]
          ELSE tbl[g]]

\* _update_group_summaries: one INSERT OR REPLACE per (group_id, algorithm)
\* partition, in the order GROUP BY yields them (ascending, NULL first), so
\* the last partition of a group_id is the row that stays
UpdateGroupSummaries(imgs, tbl) ==
    LET gids == {imgs[i].group_id : i \in 1..Len(imgs)}
        algs(g) == {imgs[i].algorithm : i \in {j \in 1..Len(imgs) : imgs[j].group_id = g}}
        lastAlg(g) == CHOOSE a \in algs(g) : \A b \in algs(g) : ~StrLT(a, b)
        part(g) == SelectSeq(imgs, LAMBDA m : m.group_id = g /\ m.algorithm = lastAlg(g))
    IN [g \in (DOMAIN tbl) \cup gids |->
          IF g \in gids
          THEN [algorithm |-> lastAlg(g),
                total_images |-> Len(part(g)),
                master_count |-> Count(part(g), LAMBDA m : m.is_master),
                existing_images |-> Count(part(g), LAMBDA m : m.file_exists)]
          ELSE tbl[g]]

\* import_csv_data on st = [connection, images, groups_table]; ok = FALSE
\* when it raises.  _clear_database commits before the data is processed.
ImportCsvData(st, r, disk) ==
    IF ~(Required \subseteq r.cols) \/ st.connection # "open"
    THEN [ok |-> FALSE, connection |-> st.connection, images |-> st.images,
          groups_table |-> st.groups_table]
    ELSE IF CleanRaises(r)
         THEN [ok |-> FALSE, connection |-> "open", images |-> <<>>,
               groups_table |-> EmptyTable]
    ELSE [ok |-> TRUE, connection |-> "open", images |-> ProcessAndInsertData(r, disk),
          groups_table |-> UpdateGroupSummaries(ProcessAndInsertData(r, disk), EmptyTable)]

\* A faulty variant of get_group_list of the durable backend, which the
\* order of the list must tell from the code: the ids are ordered as numbers.
DbGroupListNumeric(tbl) ==
    IF {"10", "2"} \subseteq DOMAIN tbl
    THEN <<"2", "10">> \o SortedStrings(DOMAIN tbl \ {"10", "2"})
    ELSE SortedStrings(DOMAIN tbl)

\* get_group_list: SELECT group_id FROM groups ORDER BY group_id
DbGroupList(tbl) == SortedStrings(DOMAIN tbl)

\* ORDER BY is_master DESC, quality_score DESC (NULL is smallest): a before b
DbBefore(a, b) ==
    \/ a.is_master /\ ~b.is_master
    \/ a.is_master = b.is_master /\ QualityBefore(a.quality_score, b.quality_score)

RECURSIVE DbSort(_)
DbSort(s) ==
    IF s = <<>> THEN <<>>
    ELSE LET rest == DbSort(SubSeq(s, 1, Len(s) - 1))
             x == s[Len(s)]
             k == Cardinality({j \in 1..Len(rest) : ~DbBefore(x, rest[j])})
         IN SubSeq(rest, 1, k) \o <<x>> \o SubSeq(rest, k + 1, Len(rest))

\* get_group_images
DbGroupImages(imgs, g) == DbSort(SelectSeq(imgs, LAMBDA m : m.group_id = g))

\* _convert_to_legacy_format: the legacy frame of rows of table images
LegacyColumns ==
    {"GroupID", "Master", "File", "Path", "MatchReasons", "FileExists", "IsMaster",
     "Algorithm", "QualityScore"}
ConvertToLegacyFormat(rows) ==
    [cols |-> LegacyColumns,
     rows |-> [i \in 1..Len(rows) |->
        [idx |-> i, GroupID |-> rows[i].group_id, Master |-> rows[i].is_master,
         File |-> rows[i].file, Path |-> rows[i].path,
         QualityScore |-> rows[i].quality_score, Algorithm |-> rows[i].algorithm,
         MatchReasons |-> rows[i].match_reasons,
         FileExists |-> rows[i].file_exists, IsMaster |-> rows[i].is_master]]]

\* _update_legacy_attributes: [groups, group_ids, missing_files]
UpdateLegacyAttributes(imgs, tbl) ==
    LET ids == DbGroupList(tbl)
        filled == {g \in DOMAIN tbl : DbGroupImages(imgs, g) # <<>>}
    IN [group_ids |-> ids,
        groups |-> [g \in filled |-> ConvertToLegacyFormat(DbGroupImages(imgs, g))],
        missing_files |->
            {imgs[i].path : i \in {j \in 1..Len(imgs) :
                imgs[j].group_id \in filled /\ ~imgs[j].file_exists}}]

\* Faulty variants of DatabaseManager.validate_file_paths, which the frame and
\* idempotence properties of revalidation must tell from the code:
\* one deletes the rows whose file is gone, one flips the flag of such a row.
DbValidateFilePathsPruning(imgs, disk) ==
    SelectSeq(imgs, LAMBDA m : CheckFileExists(m.path, disk))
DbValidateFilePathsToggling(imgs, disk) ==
    [i \in 1..Len(imgs) |->
        [imgs[i] EXCEPT !.file_exists =
            IF CheckFileExists(imgs[i].path, disk) THEN TRUE ELSE ~@]]

\* DatabaseManager.validate_file_paths: UPDATE images SET file_exists
DbValidateFilePaths(imgs, disk) ==
    [i \in 1..Len(imgs) |-> [imgs[i] EXCEPT !.file_exists = CheckFileExists(imgs[i].path, disk)]]

\* DatabaseManager.get_group_summary
DbGroupSummary(imgs, tbl, g) ==
    IF g \notin DOMAIN tbl THEN <<>>
    ELSE LET reasons == {imgs[i].match_reasons : i \in {j \in 1..Len(imgs) :
                            /\ imgs[j].group_id = g
                            /\ imgs[j].match_reasons \notin {NULL, ""}}}
         IN [group_id |-> g,
             algorithm |-> tbl[g].algorithm,
             total_images |-> tbl[g].total_images,
             master_count |-> tbl[g].master_count,
             existing_images |-> tbl[g].existing_images,
             missing_images |-> tbl[g].total_images - tbl[g].existing_images,
             match_reasons |-> IF reasons = {} THEN {"Unknown"} ELSE reasons]

\* DatabaseManager.get_overall_summary (the quality statistics are left out)
DbOverallSummary(imgs, tbl) ==
    LET total == Len(imgs)
        missing == Count(imgs, LAMBDA m : ~m.file_exists)
    IN [total_groups |-> Cardinality(DOMAIN tbl),
        total_images |-> total,
        missing_images |-> missing,
        existing_images |-> total - missing,
        master_images |-> Count(imgs, LAMBDA m : m.is_master)]

-----------------------------------------------------------------------------
(* _convert_size_to_bytes.  A string is the sequence of its characters; a   *)
(* cell of the Size column is [type |-> "str", text], a number              *)
(* [type |-> "float", num, den] (num / den), [type |-> "inf"] or the        *)
(* missing value [type |-> "nan"].  The numeric part of a string is taken   *)
(* as the decimal number it writes (the rounding of float() to a double is  *)
(* not modelled; the multiplication by a power of two is exact).            *)

DigitChars == <<"0", "1", "2", "3", "4", "5", "6", "7", "8", "9">>
IsDigit(c) == c \in Range(DigitChars)
DigitValue(c) == (CHOOSE i \in 1..10 : DigitChars[i] = c) - 1

\* str.strip()
RECURSIVE LStrip(_)
LStrip(t) == IF t # <<>> /\ Head(t) = " " THEN LStrip(Tail(t)) ELSE t
RECURSIVE RStrip(_)
RStrip(t) ==
    IF t # <<>> /\ t[Len(t)] = " " THEN RStrip(SubSeq(t, 1, Len(t) - 1)) ELSE t
Strip(t) == RStrip(LStrip(t))

\* str.upper()
UpperChar(c) ==
    CASE c = "k" -> "K" [] c = "m" -> "M" [] c = "g" -> "G" [] c = "b" -> "B"
      [] c = "t" -> "T" [] OTHER -> c
Upper(t) == [i \in 1..Len(t) |-> UpperChar(t[i])]

EndsWith(t, suffix) ==
    Len(t) >= Len(suffix) /\ SubSeq(t, Len(t) - Len(suffix) + 1, Len(t)) = suffix

RECURSIVE DigitsValue(_)
DigitsValue(t) ==
    IF t = <<>> THEN 0
    ELSE 10 * DigitsValue(SubSeq(t, 1, Len(t) - 1)) + DigitValue(t[Len(t)])

RECURSIVE PowerOfTen(_)
PowerOfTen(n) == IF n = 0 THEN 1 ELSE 10 * PowerOfTen(n - 1)

\* the unsigned decimal literal t: [ok, num, den]
ParseDecimal(t) ==
    LET dots == {i \in 1..Len(t) : t[i] = "."}
        dot == IF dots = {} THEN Len(t) + 1 ELSE CHOOSE i \in dots : TRUE
        digits == SubSeq(t, 1, dot - 1) \o SubSeq(t, dot + 1, Len(t))
    IN IF Cardinality(dots) <= 1 /\ digits # <<>> /\ \A i \in 1..Len(digits) : IsDigit(digits[i])
       THEN [ok |-> TRUE, num |-> DigitsValue(digits), den |-> PowerOfTen(Len(t) - dot + IF dots = {} THEN 1 ELSE 0)]
       ELSE [ok |-> FALSE, num |-> 0, den |-> 1]

\* float(t): blanks around the literal and a sign are accepted;
\* ok = FALSE when it raises ValueError
Signed(neg, p) == [ok |-> p.ok, neg |-> neg, num |-> p.num, den |-> p.den]
ParseFloat(t) ==
    IF Strip(t) # <<>> /\ Head(Strip(t)) = "-"
    THEN Signed(TRUE, ParseDecimal(Tail(Strip(t))))
    ELSE Signed(FALSE, ParseDecimal(Strip(t)))

\* the integer part of (q + r / den) * 1024^k
RECURSIVE Scaled(_, _, _, _)
Scaled(q, r, den, k) ==
    IF k = 0 THEN q
    ELSE Scaled(q * 1024 + (r * 1024) \div den, (r * 1024) % den, den, k - 1)

\* int(float * 1024^k): truncation toward zero
IntOfScaled(f, k) ==
    IF f.neg THEN 0 - Scaled(f.num \div f.den, f.num % f.den, f.den, k)
    ELSE Scaled(f.num \div f.den, f.num % f.den, f.den, k)

\* the try block of convert_size for a string that was stripped and
\* upper-cased; a ValueError is caught and gives None
ConvertUpper(u) ==
    LET k == CASE EndsWith(u, <<"K", "B">>) -> 1
               [] EndsWith(u, <<"M", "B">>) -> 2
               [] EndsWith(u, <<"G", "B">>) -> 3
               [] OTHER -> 0
        body == IF k = 0 THEN u ELSE SubSeq(u, 1, Len(u) - 2)
    IN IF ParseFloat(body).ok THEN <<IntOfScaled(ParseFloat(body), k)>> ELSE <<>>

\* A faulty variant of convert_size, which the sizes must tell from the
\* code: it uses decimal multiples and does not upper-case the string.
ConvertSizeDecimal(v) ==
    IF v.type = "nan" THEN <<>>
    ELSE IF v.type = "str" /\ EndsWith(Strip(v.text), <<"M", "B">>)
                /\ ParseFloat(SubSeq(Strip(v.text), 1, Len(Strip(v.text)) - 2)).ok
         THEN <<(ParseFloat(SubSeq(Strip(v.text), 1, Len(Strip(v.text)) - 2)).num * 1000000)
                  \div ParseFloat(SubSeq(Strip(v.text), 1, Len(Strip(v.text)) - 2)).den>>
    ELSE <<>>

\* convert_size: <<>> is None
convert_size(v) ==
    IF v.type = "nan" THEN <<>>
    ELSE IF v.type = "str" /\ v.text = <<>> THEN <<>>
    ELSE IF v.type = "inf" THEN <<>>
    ELSE IF v.type = "float"
         THEN <<IntOfScaled([neg |-> v.num < 0,
                             num |-> IF v.num < 0 THEN 0 - v.num ELSE v.num,
                             den |-> v.den], 0)>>
    ELSE ConvertUpper(Upper(Strip(v.text)))

-----------------------------------------------------------------------------
(* DataManager *)

Raised(e) == [raised |-> e]
EmptyFrame == [cols |-> {}, rows |-> <<>>]

\* DataManager.__init__ (and DatabaseManager.__init__ on a new store file)
NewDataManager(use_db) ==
    [use_database |-> use_db, df |-> NoFrame, groups |-> <<>>, group_ids |-> <<>>,
     missing_files |-> {}, connection |-> IF use_db THEN "open" ELSE "none",
     images |-> <<>>, groups_table |-> EmptyTable]

\* _load_csv_with_database: the store after import_csv_data gave res;
\* _update_legacy_attributes runs only when the import did not raise
LoadedWithDatabase(s, res, leg) ==
    [ok |-> res.ok, ret |-> {},
     s |-> [s EXCEPT !.connection = res.connection,
                     !.images = res.images,
                     !.groups_table = res.groups_table,
                     !.groups = IF res.ok THEN leg.groups ELSE @,
                     !.group_ids = IF res.ok THEN leg.group_ids ELSE @,
                     !.missing_files = IF res.ok THEN leg.missing_files ELSE @]]

LoadCsvWithDatabase(s, res) ==
    LoadedWithDatabase(s, res, UpdateLegacyAttributes(res.images, res.groups_table))

\* the store after _load_csv_legacy gave res
LoadedLegacy(s, res) ==
    [ok |-> res.ok, ret |-> {},
     s |-> [s EXCEPT !.df = res.df, !.groups = res.groups,
                     !.group_ids = res.group_ids,
                     !.missing_files = res.missing_files]]

\* load_csv: [ok, ret, s], ok = FALSE when it raises (ret: nothing returned but True)
load_csv(s, r, disk, idxmax_raises) ==
    IF s.use_database
    THEN LoadCsvWithDatabase(s,
            ImportCsvData([connection |-> s.connection, images |-> s.images,
                           groups_table |-> s.groups_table], r, disk))
    ELSE LoadedLegacy(s,
            LoadCsvLegacy([df |-> s.df, groups |-> s.groups, group_ids |-> s.group_ids,
                           missing_files |-> s.missing_files],
                          r, disk, idxmax_raises))

\* validate_file_paths: [ok, ret, s]
validate_file_paths(s, disk) ==
    IF s.use_database
    THEN LET imgs == DbValidateFilePaths(s.images, disk)
             leg == UpdateLegacyAttributes(imgs, s.groups_table)
         IN [ok |-> TRUE, ret |-> leg.missing_files,
             s |-> [s EXCEPT !.connection = "open", !.images = imgs,
                             !.groups = leg.groups, !.group_ids = leg.group_ids,
                             !.missing_files = leg.missing_files]]
    ELSE IF s.df.kind = "none" THEN [ok |-> TRUE, ret |-> {}, s |-> s]
    ELSE IF "Path" \notin s.df.cols
         THEN [ok |-> FALSE, ret |-> {}, s |-> [s EXCEPT !.missing_files = {}]]
    ELSE [ok |-> TRUE, ret |-> MissingOf(s.df.rows, disk),
          s |-> [s EXCEPT
                   !.missing_files = MissingOf(s.df.rows, disk),
                   !.df = [@ EXCEPT
                            !.cols = @ \cup {"FileExists"},
                            !.rows = [i \in 1..Len(s.df.rows) |->
                                        [s.df.rows[i] EXCEPT !.FileExists =
                                            CheckFileExists(s.df.rows[i].Path, disk)]]]]]

\* get_group_list
get_group_list(s) == IF s.use_database THEN DbGroupList(s.groups_table) ELSE s.group_ids

\* get_group: the frame of the group; None (transient) and the empty
\* DataFrame (durable) are both EmptyFrame
get_group(s, g) ==
    IF s.use_database
    THEN IF DbGroupImages(s.images, g) # <<>>
         THEN ConvertToLegacyFormat(DbGroupImages(s.images, g)) ELSE EmptyFrame
    ELSE IF g \in DOMAIN s.groups THEN s.groups[g] ELSE EmptyFrame

\* A faulty variant of get_group_summary, which the probing of unknown group
\* ids must tell from the code: the transient branch indexes self.groups
\* without the membership test.
GetGroupSummaryUnguarded(s, g) ==
    IF s.use_database THEN DbGroupSummary(s.images, s.groups_table, g)
    ELSE IF g \notin DOMAIN s.groups THEN Raised("KeyError")
    ELSE IF "MatchReasons" \notin s.groups[g].cols THEN Raised("KeyError")
    ELSE [group_id |-> g, total_images |-> Len(s.groups[g].rows)]

\* get_group_summary: the dict {} is <<>>
get_group_summary(s, g) ==
    IF s.use_database THEN DbGroupSummary(s.images, s.groups_table, g)
    ELSE IF g \notin DOMAIN s.groups THEN <<>>
    ELSE IF "MatchReasons" \notin s.groups[g].cols THEN Raised("KeyError")
    ELSE LET rows == s.groups[g].rows
             existing == Count(rows, LAMBDA r : r.FileExists)
         IN [group_id |-> g,
             total_images |-> Len(rows),
             existing_images |-> existing,
             missing_images |-> Len(rows) - existing,
             master_count |-> Count(rows, LAMBDA r : r.IsMaster),
             has_master |-> Count(rows, LAMBDA r : r.IsMaster) > 0,
             match_reasons |-> {rows[1].MatchReasons}]

\* ensure_connection: the queries of the durable backend reopen a closed
\* connection; the tables are created IF NOT EXISTS and keep their rows
EnsureConnection(s) ==
    IF s.use_database THEN [s EXCEPT !.connection = "open"] ELSE s

\* a query as a call: [ok, ret, s], ok = FALSE when it raises
Queried(s, ret) ==
    [ok |-> "raised" \notin DOMAIN ret, ret |-> ret, s |-> EnsureConnection(s)]

\* A faulty variant of close, which the repeated close must tell from the
\* code: disconnect closes the connection without testing that there is one.
CloseUnguarded(s) ==
    [ok |-> ~(s.use_database /\ s.connection = "closed"), ret |-> {},
     s |-> IF s.use_database THEN [s EXCEPT !.connection = "closed"] ELSE s]

\* close: disconnect() of the durable backend
close(s) ==
    [ok |-> TRUE, ret |-> {},
     s |-> IF s.use_database THEN [s EXCEPT !.connection = "closed"] ELSE s]

\* get_overall_summary
get_overall_summary(s) ==
    IF s.use_database THEN DbOverallSummary(s.images, s.groups_table)
    ELSE IF s.df.kind = "none" THEN <<>>
    ELSE IF ~({"FileExists", "IsMaster"} \subseteq s.df.cols) THEN Raised("KeyError")
    ELSE [total_groups |-> Cardinality(DOMAIN s.groups),
          total_images |-> Len(s.df.rows),
          existing_images |-> Count(s.df.rows, LAMBDA r : r.FileExists),
          missing_images |-> Cardinality(s.missing_files),
          total_masters |-> Count(s.df.rows, LAMBDA r : r.IsMaster)]

\* LIKE '%q%' over the strings and the queries of the input universe
SearchQueries == {"jpg", "dhash", "tiff"}
Like(v, q) ==
    CASE q = "jpg" -> v \in {"a.jpg", "b.jpg", "c.jpg"} \cup Paths
      [] q = "dhash" -> v = "dhash"
      [] q = "_.jpg" -> v \in {"a.jpg", "b.jpg", "c.jpg"} \cup Paths
      [] OTHER -> FALSE

DefaultLimit == 100

\* search_images(query, None, limit): the matched rows in legacy format;
\* name, the camera and the IPTC/XMP columns are NULL in the input universe
search_images(s, q, limit) ==
    IF ~s.use_database THEN EmptyFrame
    ELSE LET hit == SelectSeq(s.images,
                        LAMBDA m : Like(m.file, q) \/ Like(m.path, q) \/ Like(m.match_reasons, q))
             rows == SubSeq(hit, 1, IF Len(hit) < limit THEN Len(hit) ELSE limit)
         IN IF rows = <<>> THEN EmptyFrame ELSE ConvertToLegacyFormat(rows)

\* the queries with a LIKE wildcard (_ is any one character), the columns
\* a search can name (NULL: no field given) and the limits
WildQueries == {"_.jpg"}
SearchFields == {NULL, "file", "path", "match_reasons"}
SearchLimits == {1, DefaultLimit}

\* the values LIKE is applied to; name, the camera and the IPTC/XMP columns
\* are NULL in the input universe
SearchedValues(m, field) ==
    IF field = NULL THEN {m.file, m.path, m.match_reasons} ELSE {m[field]}

\* search_images(query, field, limit): the matched rows in legacy format
search_images_in(s, q, field, limit) ==
    IF ~s.use_database THEN EmptyFrame
    ELSE LET hit == SelectSeq(s.images,
                        LAMBDA m : \E v \in SearchedValues(m, field) : Like(v, q))
             rows == SubSeq(hit, 1, IF Len(hit) < limit THEN Len(hit) ELSE limit)
         IN IF rows = <<>> THEN EmptyFrame ELSE ConvertToLegacyFormat(rows)

\* search_images as a call: the with block leaves the connection closed
Searched(s, ret) ==
    [ok |-> TRUE, ret |-> ret,
     s |-> IF s.use_database THEN [s EXCEPT !.connection = "closed"] ELSE s]

\* with data_manager.db_manager as db: __enter__ connects, __exit__ disconnects
with_db_manager(s) == [ok |-> TRUE, ret |-> {}, s |-> [s EXCEPT !.connection = "closed"]]

-----------------------------------------------------------------------------
(* MigrationUtility: one DatabaseManager st =                               *)
(* [connection, db_file, images, groups_table] over the store file          *)

\* A faulty variant of connect, which the presence of the store file after
\* a forced migration must tell from the code: it opens a connection that
\* has no file at db_path.
ConnectWithoutFile(st) ==
    IF st.connection = "open" THEN st
    ELSE [st EXCEPT !.connection = "open",
                    !.db_file = [exists |-> st.db_file.exists, schema |-> Schema]]

\* connect: an open connection is returned as it is; otherwise
\* sqlite3.connect creates the file when there is none, and _create_tables
\* adds the tables and indexes the file lacks (IF NOT EXISTS) and commits
Connect(st) ==
    IF st.connection = "open" THEN st
    ELSE [st EXCEPT !.connection = "open",
                    !.db_file = [exists |-> TRUE, schema |-> Schema]]

\* disconnect, and __exit__
Disconnect(st) == [st EXCEPT !.connection = "closed"]

\* db_path.unlink()
Unlinked(st) ==
    [st EXCEPT !.db_file = NoFile, !.images = <<>>, !.groups_table = EmptyTable]

\* the with block of migrate_csv_to_database on the connected store c, when
\* import_csv_data gave res: a raise leaves through __exit__ too
Imported(c, res) ==
    [ok |-> res.ok,
     st |-> Disconnect([c EXCEPT !.images = res.images,
                                  !.groups_table = res.groups_table])]

ImportInto(c, r, disk) ==
    Imported(c, ImportCsvData([connection |-> c.connection, images |-> c.images,
                               groups_table |-> c.groups_table], r, disk))

\* what unlinking the file of an open connection does: on Windows unlink
\* raises PermissionError; on POSIX the file goes and the first write of the
\* connection raises "attempt to write a readonly database"
UnlinkOutcomes == {"raises", "detaches"}

\* A faulty variant of migrate_csv_to_database, which the refusal to
\* overwrite must tell from the code: it does not test db_path.exists().
MigrateOverwriting(st, r, csv_exists, force, unlink_open, disk) ==
    IF ~csv_exists THEN [ok |-> FALSE, st |-> st]
    ELSE ImportInto(Connect(Disconnect(st)), r, disk)

\* migrate_csv_to_database(csv_file_path, force): [ok (the value returned), st]
migrate_csv_to_database(st, r, csv_exists, force, unlink_open, disk) ==
    IF ~csv_exists THEN [ok |-> FALSE, st |-> st]
    ELSE IF st.db_file.exists /\ ~force THEN [ok |-> FALSE, st |-> st]
    ELSE IF st.connection = "open"
         THEN IF st.db_file.exists /\ unlink_open = "raises"
              THEN [ok |-> FALSE, st |-> st]
              ELSE [ok |-> FALSE, st |-> Disconnect(Unlinked(st))]
    ELSE ImportInto(Connect(IF st.db_file.exists THEN Unlinked(st) ELSE st), r, disk)

\* the with block of verify_database on the connected store c: only the
\* tables are required; the indexes are counted and the orphans logged
Verified(c) ==
    [ok |-> Tables \subseteq c.db_file.schema,
     ret |-> IF Tables \subseteq c.db_file.schema
             THEN [total_groups |-> Cardinality(DOMAIN c.groups_table),
                   total_images |-> Len(c.images),
                   indexes |-> Cardinality(c.db_file.schema \cap Indexes),
                   orphaned_images |->
                       Count(c.images, LAMBDA m : m.group_id \notin DOMAIN c.groups_table)]
             ELSE <<>>,
     st |-> Disconnect(c)]

\* verify_database: [ok (the value returned), ret (what it logs), st]
verify_database(st) ==
    IF ~st.db_file.exists THEN [ok |-> FALSE, ret |-> <<>>, st |-> st]
    ELSE Verified(Connect(st))

\* csv.DictWriter writes None as the empty field, and pd.read_csv reads the
\* empty field and the field nan as NaN
CsvField(v) == IF v = NULL THEN "" ELSE v
ReadField(t) == IF t \in {"", "nan"} THEN NaN ELSE t

\* The columns of an exported file that the model has; Created is there
\* with naive timestamps or empty fields.
ExportColumns == Required \cup {"Algorithm", "QualityScore", "MatchReasons", "Created"}

\* ORDER BY group_id, is_master DESC, quality_score DESC
RECURSIVE ExportOrder(_, _)
ExportOrder(imgs, gids) ==
    IF gids = <<>> THEN <<>>
    ELSE DbGroupImages(imgs, Head(gids)) \o ExportOrder(imgs, Tail(gids))

\* A faulty variant of ExportedRow, which the round trip must tell from the
\* code: is_master is written as a float.
ExportedRowFloatMaster(m) ==
    [GroupID |-> ReadField(CsvField(m.group_id)),
     Master |-> ReadField(IF m.is_master THEN "1.0" ELSE "0.0"),
     File |-> ReadField(CsvField(m.file)),
     Path |-> ReadField(CsvField(m.path)),
     QualityScore |-> m.quality_score,
     Algorithm |-> ReadField(CsvField(m.algorithm)),
     MatchReasons |-> ReadField(CsvField(m.match_reasons))]

\* a row of table images as export_database_to_csv writes it and read_csv
\* reads it again: is_master is the integer 1 or 0
ExportedRow(m) ==
    [GroupID |-> ReadField(CsvField(m.group_id)),
     Master |-> ReadField(IF m.is_master THEN "1" ELSE "0"),
     File |-> ReadField(CsvField(m.file)),
     Path |-> ReadField(CsvField(m.path)),
     QualityScore |-> m.quality_score,
     Algorithm |-> ReadField(CsvField(m.algorithm)),
     MatchReasons |-> ReadField(CsvField(m.match_reasons))]

ExportedReport(imgs) ==
    [cols |-> ExportColumns, Created |-> "naive",
     rows |-> [i \in 1..Len(imgs) |->
                 ExportedRow(ExportOrder(imgs,
                     SortedStrings({imgs[j].group_id : j \in 1..Len(imgs)}))[i])]]

\* the with block of export_database_to_csv on the connected store c
Exported(c) ==
    [ok |-> "images" \in c.db_file.schema /\ c.images # <<>>,
     ret |-> IF "images" \in c.db_file.schema /\ c.images # <<>>
             THEN ExportedReport(c.images) ELSE NoReport,
     st |-> Disconnect(c)]

\* export_database_to_csv(output_csv_path): [ok, ret (the file written), st]
export_database_to_csv(st) == Exported(Connect(st))

-----------------------------------------------------------------------------
(* The state machine *)

Call(op, ok, arg, ret) ==
    [op |-> op, ok |-> ok, arg |-> arg, ret |-> ret, again |-> last.op = op]

SetStore(s) ==
    /\ df' = s.df
    /\ groups' = s.groups
    /\ group_ids' = s.group_ids
    /\ missing_files' = s.missing_files
    /\ connection' = s.connection
    /\ images' = s.images
    /\ groups_table' = s.groups_table
    /\ UNCHANGED <<use_database, db_file>>

\* the outcomes of idxmax on an all-NaN column matter only with the column
IdxmaxOutcomes(r) == IF "QualityScore" \in r.cols THEN BOOLEAN ELSE {FALSE}

\* the step of a call that gave res = [ok, s, ret]
Returns(op, arg, res) ==
    /\ SetStore(res.s)
    /\ last' = Call(op, res.ok, arg, res.ret)
    /\ UNCHANGED fs

LoadCsv(r, idxmax_raises) ==
    Returns("load_csv", r, load_csv(Cur, r, fs, idxmax_raises))

ValidateFilePaths ==
    Returns("validate_file_paths", NoReport, validate_file_paths(Cur, fs))

\* the environment deletes (or moves away) a file, or puts one back
DeleteFile(p) ==
    /\ p \in fs
    /\ fs' = fs \ {p}
    /\ last' = Call("fs", TRUE, NoReport, {})
    /\ UNCHANGED <<use_database, store, db_file>>

RestoreFile(p) ==
    /\ p \notin fs
    /\ fs' = fs \cup {p}
    /\ last' = Call("fs", TRUE, NoReport, {})
    /\ UNCHANGED <<use_database, store, db_file>>

Constructed ==
    /\ use_database \in BOOLEAN
    /\ df = NewDataManager(use_database).df
    /\ groups = NewDataManager(use_database).groups
    /\ group_ids = NewDataManager(use_database).group_ids
    /\ missing_files = NewDataManager(use_database).missing_files
    /\ connection = NewDataManager(use_database).connection
    /\ images = NewDataManager(use_database).images
    /\ groups_table = NewDataManager(use_database).groups_table
    /\ db_file = IF use_database THEN [exists |-> TRUE, schema |-> Schema] ELSE NoFile
    /\ last = [op |-> "init", ok |-> TRUE, arg |-> NoReport, ret |-> {}, again |-> FALSE]

Init == Constructed /\ fs \in SUBSET CorePaths

\* the first load of a store, and a load into a store that was loaded before
Load == last.op = "init" /\ \E r \in Reports : LoadCsv(r, FALSE)
Reload == last.op # "init" /\ \E r \in ReloadReports : LoadCsv(r, FALSE)
Delete == \E p \in CorePaths : DeleteFile(p)
Restore == \E p \in CorePaths : RestoreFile(p)

Next == Load \/ Reload \/ ValidateFilePaths \/ Delete \/ Restore

Spec == Init /\ [][Next]_vars

\* One load of a report with optional columns into a new store.
InitLoad == Constructed /\ fs \in SUBSET RichFiles

LoadRich ==
    /\ last.op = "init"
    /\ \E opt \in OptionalColumns : \E r \in RichReports(opt) :
          \E b \in IdxmaxOutcomes(r) : LoadCsv(r, b)

NextLoad == LoadRich

SpecLoad == InitLoad /\ [][NextLoad]_vars

-----------------------------------------------------------------------------
(* Properties *)

\* Loads, the queries of a group by id (a listed one or not) and close.
UnknownId == "g9"
ProbeIds == GroupIds \cup {UnknownId}

LoadAny ==
    \E r \in ReloadReports \cup {TwoRowReport} : \E opt \in SUBSET {"QualityScore"} :
        \E b \in IdxmaxOutcomes([r EXCEPT !.cols = @ \cup opt]) :
            LoadCsv([r EXCEPT !.cols = @ \cup opt], b)
GetGroup == \E g \in ProbeIds : Returns("get_group", g, Queried(Cur, get_group(Cur, g)))
GetGroupSummary ==
    \E g \in ProbeIds : Returns("get_group_summary", g, Queried(Cur, get_group_summary(Cur, g)))
Close == Returns("close", NoReport, close(Cur))

NextQuery == LoadAny \/ GetGroup \/ GetGroupSummary \/ Close

SpecQuery == Init /\ [][NextQuery]_vars

\* MigrationUtility over a store file that was there or not when it was
\* constructed, and other programs that drop a table or an index of the file.
IncompleteReport ==
    [cols |-> Required \cup {"Algorithm", "QualityScore", "MatchReasons"},
     Created |-> "absent",
     rows |-> <<MkRow("g1", "Yes", "/x/a.jpg", <<1>>, "a", "dhash"),
                MkRow(NaN, "Yes", NaN, <<2>>, NaN, NaN)>>]
MigrateReports == ReloadReports \cup {IncompleteReport}

StoreOf(r, disk) ==
    [connection |-> "closed", db_file |-> [exists |-> TRUE, schema |-> Schema],
     images |-> InsertData(r, disk),
     groups_table |-> UpdateGroupSummaries(InsertData(r, disk), EmptyTable)]

\* the store files a MigrationUtility is constructed on: none, an empty
\* file, a migrated store, a store whose table groups was dropped
PriorStores(disk) ==
    {[connection |-> "closed", db_file |-> NoFile, images |-> <<>>,
      groups_table |-> EmptyTable],
     [connection |-> "closed", db_file |-> [exists |-> TRUE, schema |-> {}],
      images |-> <<>>, groups_table |-> EmptyTable],
     StoreOf(TwoRowReport, disk),
     [StoreOf(TwoRowReport, disk) EXCEPT !.db_file.schema = Schema \ {"groups"},
                                         !.groups_table = EmptyTable]}

MigStore ==
    [connection |-> connection, db_file |-> db_file, images |-> images,
     groups_table |-> groups_table]

SetMigStore(st) ==
    /\ connection' = st.connection
    /\ db_file' = st.db_file
    /\ images' = st.images
    /\ groups_table' = st.groups_table
    /\ UNCHANGED <<use_database, df, groups, group_ids, missing_files, fs>>

\* MigrationUtility.__init__ on the store file prior
InitMigrate ==
    /\ fs \in SUBSET CorePaths
    /\ use_database = TRUE
    /\ df = NewDataManager(TRUE).df
    /\ groups = NewDataManager(TRUE).groups
    /\ group_ids = NewDataManager(TRUE).group_ids
    /\ missing_files = NewDataManager(TRUE).missing_files
    /\ \E prior \in PriorStores(fs) :
          /\ connection = Connect(prior).connection
          /\ db_file = Connect(prior).db_file
          /\ images = Connect(prior).images
          /\ groups_table = Connect(prior).groups_table
          /\ last = [op |-> "init", ok |-> TRUE, arg |-> NoReport,
                     ret |-> [existed |-> prior.db_file.exists], again |-> FALSE]

Migrated(arg, res) ==
    /\ SetMigStore(res.st)
    /\ last' = Call("migrate_csv_to_database", res.ok, arg, [existed |-> db_file.exists])

\* the reports to migrate: those of the universe, and the file the last
\* export wrote
Migrate ==
    \E r \in MigrateReports \cup
             (IF last.op = "export_database_to_csv" /\ last.ok THEN {last.ret} ELSE {}) :
      \E csv_exists \in BOOLEAN, force \in BOOLEAN, unlink_open \in UnlinkOutcomes :
        Migrated([report |-> r, csv_exists |-> csv_exists, force |-> force],
                 migrate_csv_to_database(MigStore, r, csv_exists, force, unlink_open, fs))

MigReturns(op, res) ==
    /\ SetMigStore(res.st)
    /\ last' = Call(op, res.ok, NoReport, res.ret)

Verify == MigReturns("verify_database", verify_database(MigStore))
Export == MigReturns("export_database_to_csv", export_database_to_csv(MigStore))

\* another program drops a table (with its rows and indexes) or an index
Damage ==
    \E o \in {"groups", "images", "idx_master"} :
        /\ db_file.exists
        /\ o \in db_file.schema
        /\ db_file' = [db_file EXCEPT !.schema =
                          @ \ ({o} \cup IF o = "images" THEN Indexes ELSE {})]
        /\ images' = IF o = "images" THEN <<>> ELSE images
        /\ groups_table' = IF o = "groups" THEN EmptyTable ELSE groups_table
        /\ last' = Call("drop", TRUE, NoReport, {})
        /\ UNCHANGED <<use_database, df, groups, group_ids, missing_files,
                       connection, fs>>

NextMigrate == Migrate \/ Verify \/ Export \/ Damage

SpecMigrate == InitMigrate /\ [][NextMigrate]_vars

\* Loads of reports whose group ids are numbers (read_csv and astype(str)
\* give "10" and "2") or missing, and revalidations.
NumberedIds == {"10", "2", NaN}
NumberedRows ==
    {MkRow(g, m, p, <<>>, NaN, "dhash") :
        g \in NumberedIds, m \in {NaN, "Yes"}, p \in CorePaths}
NumberedReports ==
    {[cols |-> CoreCols, Created |-> "absent", rows |-> rs] :
        rs \in SeqsUpTo(NumberedRows, MaxRows)}

LoadNumbered == last.op = "init" /\ \E r \in NumberedReports : LoadCsv(r, FALSE)

NextList == LoadNumbered \/ ValidateFilePaths

SpecList == Init /\ [][NextList]_vars

\* Loads, searches, close and with blocks on the database manager.
Search ==
    \E q \in SearchQueries \cup WildQueries, field \in SearchFields, limit \in SearchLimits :
        Returns("search_images", [query |-> q, field |-> field, limit |-> limit],
                Searched(Cur, search_images_in(Cur, q, field, limit)))
WithDbManager == use_database /\ Returns("with", NoReport, with_db_manager(Cur))

NextConn == LoadAny \/ Search \/ Close \/ WithDbManager

SpecConn == Init /\ [][NextConn]_vars

\* One load of a report of one group whose Master cells have the values
\* read_csv can give: strings, the number 1 of an integer column ("1"), of
\* a float column ("1.0"), and the missing value.
MasterValues == {NaN, "Yes", "TRUE", "1", "y", "no", "1.0"}
FlagReports ==
    {[cols |-> CoreCols, Created |-> "absent",
      rows |-> [i \in 1..Len(ms) |->
                  MkRow("g1", ms[i], IF i = 2 THEN "/x/b.jpg" ELSE "/x/a.jpg",
                        <<>>, NaN, "dhash")]] :
        ms \in SeqsUpTo(MasterValues, MaxRows + 1) \ {<<>>}}

LoadFlags == last.op = "init" /\ \E r \in FlagReports : LoadCsv(r, FALSE)

NextFlags == LoadFlags

SpecFlags == Init /\ [][NextFlags]_vars

\* _convert_size_to_bytes applied to the cells of a Size column: strings
\* made of blanks, a numeric part, a blank and a unit, and numbers.
NumericParts ==
    {<<>>, <<"1">>, <<"0", ".", "2", "5">>, <<"1", ".", "5">>, <<".", "5">>, <<"1", ".">>,
     <<"-", "1", ".", "5">>, <<"1", ".", "5", ".", "1">>, <<"1", " ", "5">>, <<"x">>, <<".">>}
UnitParts ==
    {<<>>, <<"K", "B">>, <<"k", "b">>, <<"M", "B">>, <<"M", "b">>, <<"m", "b">>,
     <<"G", "B">>, <<"g", "B">>, <<"B">>, <<"T", "B">>, <<"K">>}
Blanks == {<<>>, <<" ">>}
SizeCells ==
    {[type |-> "str", text |-> lead \o num \o gap \o unit \o trail,
      numeric |-> num, unit |-> unit] :
        lead \in Blanks, num \in NumericParts, gap \in Blanks, unit \in UnitParts,
        trail \in Blanks}
    \cup {[type |-> "float", num |-> n, den |-> d] :
            n \in {0, 500, 0 - 15367, 15367}, d \in {1, 10}}
    \cup {[type |-> "nan"], [type |-> "inf"]}

InitSize == Constructed /\ use_database /\ fs = {}

ConvertSize ==
    \E v \in SizeCells :
        /\ last.op = "init"
        /\ last' = Call("convert_size", TRUE, v, convert_size(v))
        /\ UNCHANGED <<use_database, store, db_file, fs>>

NextSize == ConvertSize

SpecSize == InitSize /\ [][NextSize]_vars

\* Loads, on the durable backend, of reports with a Size column: missing
\* sizes, "1.5 MB" and sizes of more than 2^63 - 1 bytes.
SizeValues ==
    {[type |-> "nan"], [type |-> "str", text |-> <<"1", ".", "5", " ", "M", "B">>],
     [type |-> "huge"]}
SizedRows ==
    {[GroupID |-> g, Master |-> NaN, File |-> FileOf(p), Path |-> p, QualityScore |-> <<>>,
      Algorithm |-> NaN, MatchReasons |-> "dhash", Size |-> z] :
        g \in GroupIds, p \in CorePaths, z \in SizeValues}
SizedReports ==
    {[cols |-> CoreCols \cup {"Size"}, Created |-> "absent", rows |-> rs] :
        rs \in SeqsUpTo(SizedRows, MaxRows)}

InitWrite == Init /\ use_database

LoadSized == last.op = "init" /\ \E r \in SizedReports : LoadCsv(r, FALSE)

NextWrite == LoadSized

SpecWrite == InitWrite /\ [][NextWrite]_vars

Loaded == last.op = "load_csv" /\ last.ok
Revalidated == last.op = "validate_file_paths" /\ last.ok

Listed(s) == Range(get_group_list(s))
Masters(frame) == SelectSeq(frame.rows, LAMBDA r : r.IsMaster)

\* the five counts of an overall summary (master_images is the durable
\* backend's name of total_masters)
Counts(sum) ==
    [totalGroups |-> sum.total_groups,
     totalImages |-> sum.total_images,
     existingImages |-> sum.existing_images,
     missingImages |-> sum.missing_images,
     totalMasters |-> IF "total_masters" \in DOMAIN sum
                      THEN sum.total_masters ELSE sum.master_images]

\* the records a search returns, as a set
Matched(s, q) ==
    {[GroupID |-> r.GroupID, File |-> r.File, Path |-> r.Path] :
        r \in Range(search_images(s, q, DefaultLimit).rows)}

\* the same report loaded by a new DataManager
FreshLoad(use_db, b) == load_csv(NewDataManager(use_db), last.arg, fs, b)

TotalImages(sum) == IF "total_images" \in DOMAIN sum THEN sum.total_images ELSE -1

RECURSIVE SumTotalImages(_, _)
SumTotalImages(s, ids) ==
    IF ids = <<>> THEN 0
    ELSE TotalImages(get_group_summary(s, Head(ids))) + SumTotalImages(s, Tail(ids))

\* what the queries return
QueryResults(s) ==
    [list |-> get_group_list(s),
     group |-> [g \in GroupIds |-> get_group(s, g)],
     summary |-> [g \in GroupIds |-> get_group_summary(s, g)],
     overall |-> get_overall_summary(s)]

\* the catalog that can be read: the groups and their images
Catalog(s) ==
    [list |-> get_group_list(s),
     group |-> [g \in GroupIds |-> get_group(s, g)],
     overall |-> get_overall_summary(s)]

\* the stored paths
StoredPaths(s) ==
    IF s.use_database THEN {s.images[i].path : i \in 1..Len(s.images)}
    ELSE {s.df.rows[i].Path : i \in 1..Len(s.df.rows)}

\* everything of the catalog but the fileExists values
Frame(s) ==
    [list |-> get_group_list(s),
     members |-> [g \in GroupIds |->
                    [i \in 1..Len(get_group(s, g).rows) |->
                        [File |-> get_group(s, g).rows[i].File,
                         Path |-> get_group(s, g).rows[i].Path,
                         IsMaster |-> get_group(s, g).rows[i].IsMaster]]],
     totals |-> [g \in GroupIds |-> TotalImages(get_group_summary(s, g))]]

\* the fileExists value of every record: those get_group returns, and the
\* stored ones
FileExistsValues(s) ==
    [group |-> [g \in GroupIds |->
                  [i \in 1..Len(get_group(s, g).rows) |->
                      [Path |-> get_group(s, g).rows[i].Path,
                       FileExists |-> get_group(s, g).rows[i].FileExists]]],
     stored |-> IF s.use_database
                THEN [i \in 1..Len(s.images) |-> s.images[i].file_exists]
                ELSE [i \in 1..Len(s.df.rows) |-> s.df.rows[i].FileExists]]

\* C1: after a successful load, on either backend, every listed group has
\* exactly one member with IsMaster true.
\* (Refuted: the durable backend stores the Master column as it is.)
C1_ExactlyOneMaster ==
    Loaded => \A g \in Listed(Cur) : Len(Masters(get_group(Cur, g))) = 1

\* C2: for the same report, the overall summary of the two backends has
\* the same five counts and a search returns the same set of records.
\* (Refuted: the transient backend's search returns nothing, and the counts
\* of masters and of missing images differ.)
C2_BackendsAgree ==
    Loaded =>
        \A b \in IdxmaxOutcomes(last.arg) :
            LET other == FreshLoad(~use_database, b)
            IN other.ok =>
                /\ Counts(get_overall_summary(Cur)) = Counts(get_overall_summary(other.s))
                /\ \A q \in SearchQueries : Matched(Cur, q) = Matched(other.s, q)

\* C3: after a successful load, the total_images of the summaries of the
\* listed groups add up to the total_images of the overall summary, also
\* when rows of one group carry different Algorithm values.
\* (Refuted: the roll-up of a group counts one Algorithm value's rows.)
C3_GroupTotalsAddUp ==
    (/\ Loaded
     /\ \A g \in Listed(Cur) : "total_images" \in DOMAIN get_group_summary(Cur, g))
        => SumTotalImages(Cur, get_group_list(Cur)) = get_overall_summary(Cur).total_images

\* C4: on the durable backend, a load that fails after the columns were
\* validated leaves the catalog of the prior load as it was.
\* (Refuted: the tables are emptied, and the deletion committed, before the
\* rows are cleaned.)
C4_FailedLoadKeepsCatalog ==
    [][(/\ use_database
        /\ last'.op = "load_csv"
        /\ ~last'.ok
        /\ Required \subseteq last'.arg.cols) => Catalog(Cur') = Catalog(Cur)]_vars

\* C5: a load of a report that lacks a mandatory column fails and every
\* query returns afterwards what it returned before, on both backends.
\* (Refuted: the transient backend replaces df before it checks the columns.)
C5_SchemaErrorChangesNothing ==
    [][(last'.op = "load_csv" /\ ~(Required \subseteq last'.arg.cols))
          => (~last'.ok /\ QueryResults(Cur') = QueryResults(Cur))]_vars

\* C6: after a successful load every query result, the missing-files set
\* included, is that of the same report loaded into a new store.
\* (Refuted: the transient backend's missing_files keeps the paths of the
\* load before.)
C6_DestructiveReload ==
    Loaded =>
        LET fresh == FreshLoad(use_database, FALSE).s
        IN /\ QueryResults(Cur) = QueryResults(fresh)
           /\ missing_files = fresh.missing_files

\* C7: after validate_file_paths returns, FileExists of every record that
\* get_group returns is the existence of its file, and the list returned is
\* the set of the stored paths whose file does not exist.
\* (Refuted: the transient backend's group frames are copies that
\* revalidation does not touch.)
C7_RevalidateIsCurrent ==
    Revalidated =>
        /\ \A g \in GroupIds : \A r \in Range(get_group(Cur, g).rows) :
               r.FileExists = CheckFileExists(r.Path, fs)
        /\ last.ret = {p \in StoredPaths(Cur) : ~CheckFileExists(p, fs)}

\* C8: validate_file_paths changes only FileExists values: the list of group
\* ids, the members of every group, their IsMaster flags and the total image
\* count of every group are the same before and after the call.
C8_RevalidateFrame ==
    [][last'.op = "validate_file_paths" => Frame(Cur') = Frame(Cur)]_vars

\* C8 happens: a revalidation found every file of a listed group gone that
\* had an existing file when it was loaded, and the group is still listed.
C8_Witness ==
    /\ last.op = "validate_file_paths"
    /\ last.ret # {}
    /\ \E g \in Listed(Cur) :
          /\ get_group_summary(Cur, g).existing_images >= 1
          /\ get_group(Cur, g).rows # <<>>
          /\ \A r \in Range(get_group(Cur, g).rows) : r.Path \notin fs

\* C9: validate_file_paths is idempotent: the second of two consecutive
\* calls, no file-system change between them, leaves every FileExists value
\* as the first left it and returns the same set of missing paths.
C9_RevalidateIdempotent ==
    [][(last.op = "validate_file_paths" /\ last'.op = "validate_file_paths")
          => (/\ FileExistsValues(Cur') = FileExistsValues(Cur)
              /\ last'.ret = last.ret
              /\ last'.ok = last.ok)]_vars

\* C9 happens: a second consecutive revalidation that reports missing files.
C9_Witness ==
    /\ last.op = "validate_file_paths"
    /\ last.again
    /\ last.ok
    /\ last.ret # {}
    /\ \E i \in 1..Len(images) : ~images[i].file_exists

\* the members of group g a report brings: its rows with a file and a path
ReportMembers(r, g) ==
    SelectSeq(r.rows, LAMBDA x : Str(x.GroupID) = g /\ ~IsNa(x.File) /\ ~IsNa(x.Path))
Unflagged(r, g) ==
    /\ ReportMembers(r, g) # <<>>
    /\ \A x \in Range(ReportMembers(r, g)) : ~LegacyIsMaster(x.Master)

\* the master selection policy: the maximum quality score if a member has
\* one, ties by the shortest path, then first seen
Scored(r, x) == "QualityScore" \in r.cols /\ x.QualityScore # <<>>
PolicyBetter(r, x, y) ==
    \/ Scored(r, x) /\ ~Scored(r, y)
    \/ Scored(r, x) /\ Scored(r, y) /\ x.QualityScore[1] > y.QualityScore[1]
    \/ /\ Scored(r, x) = Scored(r, y)
       /\ Scored(r, x) => x.QualityScore[1] = y.QualityScore[1]
       /\ Len(x.Path) < Len(y.Path)
PolicyPick(r, g) ==
    LET m == ReportMembers(r, g)
        i == CHOOSE k \in 1..Len(m) :
                /\ \A j \in 1..Len(m) : ~PolicyBetter(r, m[j], m[k])
                /\ \A j \in 1..(k - 1) : PolicyBetter(r, m[k], m[j])
    IN m[i]

\* C10: a group without a flagged master gets exactly one master by load,
\* the member the selection policy picks.
\* (Refuted: the durable backend designates none; the transient backend
\* breaks ties of the score by order alone and has no fallback when the
\* QualityScore column is empty.)
C10_MasterPolicy ==
    Loaded =>
        \A g \in GroupIds :
            Unflagged(last.arg, g) =>
                LET ms == Masters(get_group(Cur, g))
                IN /\ Len(ms) = 1
                   /\ ms[1].Path = PolicyPick(last.arg, g).Path
                   /\ ms[1].File = PolicyPick(last.arg, g).File

\* the canonical order of the members of a group: a before b
CanonBefore(byQuality, a, b) ==
    \/ a.IsMaster /\ ~b.IsMaster
    \/ /\ a.IsMaster = b.IsMaster
       /\ IF byQuality
          THEN /\ a.QualityScore # <<>>
               /\ (b.QualityScore = <<>> \/ a.QualityScore[1] > b.QualityScore[1])
          ELSE StrLT(a.File, b.File)

\* C11: get_group returns the members of a group with the master first,
\* the others by descending quality score when the report has scores and
\* otherwise by ascending file name, ties in input order.
\* (Refuted: the durable backend orders by is_master and quality_score
\* only, never by file name.)
C11_CanonicalOrder ==
    Loaded =>
        \A g \in GroupIds :
            LET rows == get_group(Cur, g).rows
                byQuality == "QualityScore" \in last.arg.cols
            IN \A i, j \in 1..Len(rows) :
                  i < j => /\ ~CanonBefore(byQuality, rows[j], rows[i])
                           /\ (~CanonBefore(byQuality, rows[i], rows[j])
                                  => rows[i].idx < rows[j].idx)

\* the rows of group g the report flags as master (rows with a file and a path)
FlaggedMasters(r, g) ==
    SelectSeq(ReportMembers(r, g), LAMBDA x : LegacyIsMaster(x.Master))

\* C12: when the report flags k > 1 rows of a group as master, load
\* succeeds, the group keeps k masters and get_group_summary reports
\* master_count = k.
\* (Refuted: the roll-up of the durable backend counts the masters of one
\* Algorithm value only.)
C12_MultipleMastersKept ==
    last.op = "load_csv" =>
        \A g \in GroupIds :
            LET k == Len(FlaggedMasters(last.arg, g))
                sum == get_group_summary(Cur, g)
            IN k > 1 =>
                /\ last.ok
                /\ Len(Masters(get_group(Cur, g))) = k
                /\ "master_count" \in DOMAIN sum
                /\ sum.master_count = k

\* C18: in the durable store every images row has a groups row of its
\* group_id and every groups row has an images row, after any sequence of
\* loads (failed ones too) and revalidations.
C18_ImagesAndGroupsPaired ==
    use_database => {images[i].group_id : i \in 1..Len(images)} = DOMAIN groups_table

\* C18 happens: a store of two groups that was loaded and revalidated.
C18_Witness ==
    /\ use_database
    /\ last.op = "validate_file_paths"
    /\ Cardinality(DOMAIN groups_table) = 2
    /\ Len(images) = 2

\* the rows of a report that have a GroupID, a File and a Path
CompleteRows(r) ==
    SelectSeq(r.rows, LAMBDA x : ~IsNa(x.GroupID) /\ ~IsNa(x.File) /\ ~IsNa(x.Path))

\* C19: a successful load, on either backend, drops every row whose GroupID,
\* File or Path is missing: total_images counts the other rows only and no
\* group has a member without a file or a path.
\* (Refuted: the durable backend stores such a row with an empty file and
\* path.)
C19_IncompleteRowsDropped ==
    Loaded =>
        /\ TotalImages(get_overall_summary(Cur)) = Len(CompleteRows(last.arg))
        /\ \A g \in Listed(Cur) : \A x \in Range(get_group(Cur, g).rows) :
              x.idx # NaNLabel => x.File # "" /\ x.Path # ""

\* C20: get_group and get_group_summary with a group id that is not listed
\* return the empty result (no frame, the empty dict), do not raise, and
\* leave the catalog and the stored rows as they were, on both backends.
C20_UnknownGroupIsNotFound ==
    [][(last'.op \in {"get_group", "get_group_summary"} /\ last'.arg \notin Listed(Cur)) =>
          /\ last'.ok
          /\ last'.ret = IF last'.op = "get_group" THEN EmptyFrame ELSE <<>>
          /\ UNCHANGED <<use_database, df, groups, group_ids, missing_files,
                         images, groups_table, fs>>]_vars

\* C20 happens: the summary of an unknown id was asked of a loaded catalog.
C20_Witness ==
    /\ last.op = "get_group_summary"
    /\ last.arg = UnknownId
    /\ Listed(Cur) # {}

Migrating == "migrate_csv_to_database"

\* C13: migrate_csv_to_database without force returns failure whenever the
\* store file exists, and leaves the file and its rows as they were.
C13_NoOverwriteWithoutForce ==
    [][(last'.op = Migrating /\ ~last'.arg.force /\ db_file.exists) =>
          /\ ~last'.ok
          /\ UNCHANGED <<db_file, images, groups_table>>]_vars

\* C13 happens: a readable report with the mandatory columns was refused
\* for a store that has rows.
C13_Witness ==
    /\ last.op = Migrating
    /\ ~last.arg.force
    /\ last.arg.csv_exists
    /\ Required \subseteq last.arg.report.cols
    /\ last.ret.existed
    /\ ~last.ok
    /\ images # <<>>

\* a report import_csv_data does not raise on
Importable(a) ==
    a.csv_exists /\ Required \subseteq a.report.cols /\ ~CleanRaises(a.report)

\* C14: on a path with no store file, the first migrate_csv_to_database
\* without force of a new MigrationUtility succeeds and stores every row
\* of the report; after a migration without force that succeeded,
\* verify_database returns true and export_database_to_csv of a store with
\* rows succeeds.
\* (Refuted: the constructor has created the store file.)
C14_MigrateIntoNewPath ==
    [][/\ (/\ last.op = "init" /\ ~last.ret.existed
           /\ last'.op = Migrating /\ ~last'.arg.force /\ Importable(last'.arg)) =>
              /\ last'.ok
              /\ Len(images') = Len(last'.arg.report.rows)
       /\ (/\ last.op = Migrating /\ last.ok /\ ~last.arg.force
           /\ last'.op = "verify_database") => last'.ok
       /\ (/\ last.op = Migrating /\ last.ok /\ ~last.arg.force /\ images # <<>>
           /\ last'.op = "export_database_to_csv") => last'.ok]_vars

\* C15: when the store file exists and migrate_csv_to_database with force
\* returns success, the file exists afterwards and its rows are those of
\* the report, row by row, and a verify_database that follows returns true
\* and counts them.
C15_ForcedMigrateReplaces ==
    [][/\ (last'.op = Migrating /\ last'.arg.force /\ db_file.exists /\ last'.ok) =>
              /\ db_file'.exists
              /\ Len(images') = Len(last'.arg.report.rows)
              /\ \A i \in 1..Len(images') :
                    /\ images'[i].group_id = Str(last'.arg.report.rows[i].GroupID)
                    /\ images'[i].file = FillNa(last'.arg.report.rows[i].File)
                    /\ images'[i].path = FillNa(last'.arg.report.rows[i].Path)
       /\ (/\ last.op = Migrating /\ last.arg.force /\ last.ret.existed /\ last.ok
           /\ last'.op = "verify_database") =>
              /\ last'.ok
              /\ last'.ret.total_images = Len(last.arg.report.rows)]_vars

\* C15 happens: a forced migration over an existing store file succeeded
\* and stored rows.
C15_Witness ==
    /\ last.op = Migrating
    /\ last.arg.force
    /\ last.ret.existed
    /\ last.ok
    /\ images # <<>>
    /\ db_file.exists

\* the membership of the groups of a store: group id, file, path, flag
Members(imgs) ==
    {[group_id |-> imgs[i].group_id, file |-> imgs[i].file, path |-> imgs[i].path,
      is_master |-> imgs[i].is_master] : i \in 1..Len(imgs)}

\* C16: export_database_to_csv writes one row per stored image, and
\* migrating the file it wrote into an empty store gives as many records,
\* the same members (group id, file, path, isMaster) and, for a store whose
\* images all have a groups row, the same list of group ids.
C16_ExportRoundTrip ==
    [][/\ (last'.op = "export_database_to_csv" /\ last'.ok) =>
              Len(last'.ret.rows) = Len(images)
       /\ (/\ last.op = "export_database_to_csv" /\ last.ok
           /\ last'.op = Migrating /\ last'.arg.report = last.ret /\ last'.ok) =>
              /\ Len(images') = Len(images)
              /\ Members(images') = Members(images)
              /\ ({images[i].group_id : i \in 1..Len(images)} = DOMAIN groups_table
                    => DbGroupList(groups_table') = DbGroupList(groups_table))]_vars

\* C16 happens: an exported file with a master and a duplicate was migrated.
C16_Witness ==
    /\ last.op = Migrating
    /\ last.ok
    /\ last.arg.report.cols = ExportColumns
    /\ \E i, j \in 1..Len(images) : images[i].is_master /\ ~images[j].is_master

\* C17: verify_database returns true exactly when the store file has every
\* table and every index of the schema (orphaned images do not matter).
\* (Refuted: the indexes are only counted, and connect recreates what a
\* store lacks before the tables are looked up.)
C17_VerifyChecksSchema ==
    [][last'.op = "verify_database" =>
          (last'.ok <=> (db_file.exists /\ Schema \subseteq db_file.schema))]_vars

\* the group ids of the stored records
StoredIds(s) ==
    IF s.use_database THEN {s.images[i].group_id : i \in 1..Len(s.images)}
    ELSE {Str(s.df.rows[i].GroupID) : i \in {j \in 1..Len(s.df.rows) : ~IsNa(s.df.rows[j].GroupID)}}

\* C21: get_group_list is, on both backends, the group ids of the stored
\* records, each once, in ascending binary order of the strings ("10"
\* before "2").
C21_GroupListSorted ==
    /\ Range(get_group_list(Cur)) = StoredIds(Cur)
    /\ \A i, j \in 1..Len(get_group_list(Cur)) :
          i < j => StrLT(get_group_list(Cur)[i], get_group_list(Cur)[j])

\* C21 happens: the groups 10 and 2 are listed.
C21_Witness ==
    /\ last.op = "load_csv"
    /\ Range(get_group_list(Cur)) = {"10", "2"}

\* C22: close() does not raise in any state, on either backend, however
\* often it is called in a row; afterwards the durable connection is closed
\* and the catalog and the stored rows are as before.
C22_CloseIdempotent ==
    [][last'.op = "close" =>
          /\ last'.ok
          /\ connection' = IF use_database THEN "closed" ELSE connection
          /\ UNCHANGED <<use_database, df, groups, group_ids, missing_files,
                         images, groups_table, db_file, fs>>]_vars

\* C22 happens: a loaded durable store was closed twice in a row.
C22_Witness ==
    /\ last.op = "close"
    /\ last.again
    /\ use_database
    /\ images # <<>>
    /\ connection = "closed"

\* v contains q as a literal substring, whatever the letter case, over the
\* strings and the queries of the input universe
Contains(v, q) ==
    CASE q = "jpg" -> v \in {"a.jpg", "b.jpg", "c.jpg"} \cup Paths
      [] q = "dhash" -> v = "dhash"
      [] OTHER -> FALSE

\* the record matches the query in the named field, or in one of the
\* free-text fields when none is named
MatchesQuery(rec, a) ==
    \E v \in (CASE a.field = NULL -> {rec.File, rec.Path, rec.MatchReasons}
                [] a.field = "file" -> {rec.File}
                [] a.field = "path" -> {rec.Path}
                [] OTHER -> {rec.MatchReasons}) : Contains(v, a.query)

\* the stored records, as get_group gives them
StoredRecords(s) ==
    IF s.use_database THEN Range(ConvertToLegacyFormat(s.images).rows)
    ELSE Range(s.df.rows)

Triple(rec) == [GroupID |-> rec.GroupID, File |-> rec.File, Path |-> rec.Path]

\* C23: search_images returns at most limit records, each of which has the
\* query as a literal substring in the searched field(s), and when it
\* returns fewer than limit records every stored record that matches is
\* among them.
\* (Refuted: the transient backend returns nothing, and the query is a LIKE
\* pattern in which _ and % are wildcards.)
C23_SearchIsSubstringMatch ==
    [][last'.op = "search_images" =>
          /\ Len(last'.ret.rows) <= last'.arg.limit
          /\ \A rec \in Range(last'.ret.rows) : MatchesQuery(rec, last'.arg)
          /\ Len(last'.ret.rows) < last'.arg.limit =>
                \A rec \in StoredRecords(Cur) :
                    MatchesQuery(rec, last'.arg) =>
                        \E got \in Range(last'.ret.rows) : Triple(got) = Triple(rec)]_vars

\* C27: on the durable backend load_csv of a report with the mandatory
\* columns and parseable dates succeeds whatever was called before
\* (search_images, close, a with block on the database manager), and the
\* store then holds the rows and lists the groups of that report.
\* (Refuted: import_csv_data uses the connection those calls set to None.)
C27_LoadAfterClosedConnection ==
    [][(/\ use_database
        /\ last'.op = "load_csv"
        /\ Required \subseteq last'.arg.cols
        /\ ~CleanRaises(last'.arg)) =>
          /\ last'.ok
          /\ Len(images') = Len(last'.arg.rows)
          /\ Range(DbGroupList(groups_table')) =
                {Str(last'.arg.rows[i].GroupID) : i \in 1..Len(last'.arg.rows)}]_vars

\* C24: a report with the four mandatory columns only loads on both
\* backends, and get_group, get_group_summary and get_overall_summary then
\* give a result, without raising, for every listed group.
\* (Refuted: the transient get_group_summary reads the column MatchReasons.)
C24_MandatoryColumnsSuffice ==
    (last.op = "load_csv" /\ last.arg.cols = Required) =>
        /\ last.ok
        /\ "raised" \notin DOMAIN get_overall_summary(Cur)
        /\ \A g \in Listed(Cur) :
              /\ get_group(Cur, g) # EmptyFrame
              /\ get_group_summary(Cur, g) # <<>>
              /\ "raised" \notin DOMAIN get_group_summary(Cur, g)

\* the Master values whose lower-cased string form is true, 1, yes or y
SaysMaster(v) == v \in {"Yes", "TRUE", "1", "y"}

\* C25 as stated: after a load, on both backends, a record's isMaster is
\* true if and only if the lower-cased string form of its Master value is
\* one of true, 1, yes, y.
C25_FlagIffCoerced ==
    Loaded =>
        IF use_database
        THEN \A i \in 1..Len(images) :
                images[i].is_master <=> SaysMaster(last.arg.rows[i].Master)
        ELSE \A g \in Listed(Cur) : \A x \in Range(get_group(Cur, g).rows) :
                x.IsMaster <=> SaysMaster(x.Master)

\* C25, amended: on both backends a record whose Master value says so has
\* isMaster true; a record with isMaster true whose Master value does not
\* say so is the one master of a group none of whose members is flagged
\* (the master that load designates).
C25_FlagOrFallback ==
    Loaded =>
        IF use_database
        THEN \A i \in 1..Len(images) :
                /\ SaysMaster(last.arg.rows[i].Master) => images[i].is_master
                /\ (images[i].is_master /\ ~SaysMaster(last.arg.rows[i].Master)) =>
                      /\ \A k \in 1..Len(images) :
                            images[k].group_id = images[i].group_id =>
                                ~SaysMaster(last.arg.rows[k].Master)
                      /\ Len(Masters(get_group(Cur, images[i].group_id))) = 1
        ELSE \A g \in Listed(Cur) : \A x \in Range(get_group(Cur, g).rows) :
                /\ SaysMaster(x.Master) => x.IsMaster
                /\ (x.IsMaster /\ ~SaysMaster(x.Master)) =>
                      /\ \A y \in Range(get_group(Cur, g).rows) : ~SaysMaster(y.Master)
                      /\ Len(Masters(get_group(Cur, g))) = 1

\* C25 happens: a durable load of a record flagged TRUE, one flagged Yes
\* and one with a Master value that is not a flag.
C25_Witness ==
    /\ Loaded
    /\ use_database
    /\ \E i, j, k \in 1..Len(images) :
          /\ last.arg.rows[i].Master = "TRUE" /\ images[i].is_master
          /\ last.arg.rows[j].Master = "Yes" /\ images[j].is_master
          /\ last.arg.rows[k].Master = "1.0" /\ ~images[k].is_master

-----------------------------------------------------------------------------
(* Size normalization *)

\* The number a numeric part writes, as <<negative, whole, d>>: the whole
\* part plus 1/d (d = 0: no fraction); <<>> when it writes no number.
WrittenNumber(numeric) ==
    CASE numeric = <<"1">> -> <<FALSE, 1, 0>>
      [] numeric = <<"1", ".">> -> <<FALSE, 1, 0>>
      [] numeric = <<"1", ".", "5">> -> <<FALSE, 1, 2>>
      [] numeric = <<".", "5">> -> <<FALSE, 0, 2>>
      [] numeric = <<"0", ".", "2", "5">> -> <<FALSE, 0, 4>>
      [] numeric = <<"-", "1", ".", "5">> -> <<TRUE, 1, 2>>
      [] OTHER -> <<>>

\* Bytes per unit; 0 for a suffix that is no unit.
UnitBytes(unit) ==
    CASE unit = <<>> -> 1
      [] unit \in {<<"K", "B">>, <<"k", "b">>} -> 1024
      [] unit \in {<<"M", "B">>, <<"M", "b">>, <<"m", "b">>} -> 1048576
      [] unit \in {<<"G", "B">>, <<"g", "B">>} -> 1073741824
      [] OTHER -> 0

Magnitude(w, bytes) == w[2] * bytes + (IF w[3] = 0 THEN 0 ELSE bytes \div w[3])

ExpectedSize(v) ==
    CASE v.type = "nan" -> <<>>
      [] v.type = "float" ->
            <<IF v.num < 0 THEN 0 - ((0 - v.num) \div v.den) ELSE v.num \div v.den>>
      [] v.type = "str" ->
            IF WrittenNumber(v.numeric) = <<>> \/ UnitBytes(v.unit) = 0 THEN <<>>
            ELSE IF WrittenNumber(v.numeric)[1]
                 THEN <<0 - Magnitude(WrittenNumber(v.numeric), UnitBytes(v.unit))>>
                 ELSE <<Magnitude(WrittenNumber(v.numeric), UnitBytes(v.unit))>>

\* C26: a size string ending in KB, MB or GB (any letter case, blanks
\* around it) becomes its numeric part times 1024, 1024^2 or 1024^3,
\* truncated to an integer; a bare numeric string or a number is taken as
\* bytes; a missing, empty or unparsable value becomes absent and the
\* conversion never raises; "1.5 MB" gives exactly 1572864.
C26_SizeNormalized ==
    last.op = "convert_size" /\ last.arg.type # "inf" =>
        /\ last.ok
        /\ last.ret = ExpectedSize(last.arg)
        /\ last.arg.type = "str" /\ last.arg.text = <<"1", ".", "5", " ", "M", "B">> =>
                last.ret = <<1572864>>

C26_Witness ==
    /\ last.op = "convert_size"
    /\ last.arg.type = "str"
    /\ last.arg.text = <<" ", "1", ".", "5", " ", "m", "b", " ">>
    /\ last.ret = <<1572864>>

-----------------------------------------------------------------------------
(* Existing-file counts *)

ExistingImages(sum) ==
    IF "existing_images" \in DOMAIN sum THEN sum.existing_images ELSE -1

RECURSIVE SumExistingImages(_, _)
SumExistingImages(s, ids) ==
    IF ids = <<>> THEN 0
    ELSE ExistingImages(get_group_summary(s, Head(ids))) + SumExistingImages(s, Tail(ids))

\* C28: after any sequence of loads and revalidations, with files deleted or
\* restored in between, the existing_images of get_group_summary(g) is the
\* number of members of get_group(g) whose fileExists is true, for every
\* group on either backend, and these values sum to the existing_images of
\* get_overall_summary.
\* (Refuted: a revalidation updates the stored records only; the group
\* roll-ups of the durable backend and the group copies of the transient
\* one keep the values of the load.)
C28_ExistingCountsAgree ==
    (Loaded \/ Revalidated) /\ "existing_images" \in DOMAIN get_overall_summary(Cur) =>
        /\ \A g \in Listed(Cur) :
                ExistingImages(get_group_summary(Cur, g))
                    = Count(get_group(Cur, g).rows, LAMBDA r : r.FileExists)
        /\ SumExistingImages(Cur, get_group_list(Cur))
                = ExistingImages(get_overall_summary(Cur))

\* C29: in every state reached by loads and revalidations, the overall
\* summary satisfies existing_images + missing_images = total_images on
\* both backends, also when several records share a path.
\* (Refuted: the transient backend counts the distinct missing paths.)
C29_ExistingPlusMissingIsTotal ==
    Loaded \/ Revalidated =>
        LET sum == get_overall_summary(Cur)
        IN "total_images" \in DOMAIN sum =>
                sum.existing_images + sum.missing_images = sum.total_images

-----------------------------------------------------------------------------
(* Two-tier write *)

WritableRows(r) == SelectSeq(r.rows, LAMBDA x : Writable(x, r.cols))

====
